---- MODULE Spec2Model ----
(***************************************************************************)
(* A model of add_copyright.py: the notice inserter (prepend_copyright),   *)
(* the directory scanner (find_files_by_extensions) and the main script.   *)
(* Text is modelled character by character: a string is a sequence of      *)
(* one-character strings, a file's content is one such sequence, and the   *)
(* Python string methods the code calls are operators over sequences.      *)
(***************************************************************************)
EXTENDS Integers, Sequences, FiniteSets, TLC

VARIABLES
    pc,                   \* position of the main script
    root_valid,           \* os.path.isdir(directory_to_search)
    dirs,                 \* the directories under the root (paths of names)
    fs,                   \* file path -> content (a sequence of characters)
    unreadable,           \* file paths whose open()/readlines() raises
    file_extensions_str,  \* the extension list as typed
    excluded_dirs,        \* the set of excluded directory names
    copyright_file,       \* copyright.txt: [status, text]
    copyright_text,       \* the notice text once loaded
    found_files,          \* the scanner's result
    idx,                  \* number of found files already handed to the inserter
    exit_code,            \* -1 while running, then the process exit status
    calls,                \* one record per prepend_copyright call
    fs0                   \* the file contents when the run started

vars == <<pc, root_valid, dirs, fs, unreadable, file_extensions_str, excluded_dirs,
          copyright_file, copyright_text, found_files, idx, exit_code, calls, fs0>>

----------------------------------------------------------------------------
(* Characters and the Python string methods used by the code *)

NL == "\n"
SP == " "
TAB == "\t"

Max(S) == CHOOSE x \in S : \A y \in S : y <= x
Min(S) == CHOOSE x \in S : \A y \in S : x <= y

\* str.isspace on one character
IsSpace(c) == c \in {SP, TAB, NL}

\* str.rstrip()
RStrip(s) ==
    LET keep == {i \in 1..Len(s) : ~IsSpace(s[i])}
    IN IF keep = {} THEN <<>> ELSE SubSeq(s, 1, Max(keep))

\* str.lstrip()
LStrip(s) ==
    LET keep == {i \in 1..Len(s) : ~IsSpace(s[i])}
    IN IF keep = {} THEN <<>> ELSE SubSeq(s, Min(keep), Len(s))

\* str.strip()
Strip(s) == LStrip(RStrip(s))

\* str.startswith(p)
StartsWith(s, p) == Len(s) >= Len(p) /\ SubSeq(s, 1, Len(p)) = p

\* the `in` operator on strings: p occurs in s
Contains(s, p) ==
    \E i \in 0..(Len(s) - Len(p)) : SubSeq(s, i + 1, i + Len(p)) = p

UpperChars == <<"A","B","C","D","E","F","G","H","I","J","K","L","M",
                "N","O","P","Q","R","S","T","U","V","W","X","Y","Z">>
LowerChars == <<"a","b","c","d","e","f","g","h","i","j","k","l","m",
                "n","o","p","q","r","s","t","u","v","w","x","y","z">>

\* str.lower()
Lower(s) ==
    [i \in 1..Len(s) |->
        IF \E k \in 1..26 : UpperChars[k] = s[i]
        THEN LowerChars[CHOOSE k \in 1..26 : UpperChars[k] = s[i]]
        ELSE s[i]]

\* str.split(c) for a one-character separator: always at least one piece
RECURSIVE Split(_, _)
Split(s, c) ==
    LET at == {i \in 1..Len(s) : s[i] = c}
    IN IF at = {} THEN <<s>>
       ELSE <<SubSeq(s, 1, Min(at) - 1)>> \o Split(SubSeq(s, Min(at) + 1, Len(s)), c)

\* file.readlines(): the lines of a text, each keeping its newline
RECURSIVE ReadLines(_)
ReadLines(s) ==
    LET at == {i \in 1..Len(s) : s[i] = NL}
    IN IF s = <<>> THEN <<>>
       ELSE IF at = {} THEN <<s>>
       ELSE <<SubSeq(s, 1, Min(at))>> \o ReadLines(SubSeq(s, Min(at) + 1, Len(s)))

\* file.writelines(lines) / "".join(lines): the pieces one after the other
RECURSIVE Concat(_)
Concat(lines) ==
    IF lines = <<>> THEN <<>> ELSE Head(lines) \o Concat(Tail(lines))

\* "\n".join(lines)
RECURSIVE JoinNL(_)
JoinNL(lines) ==
    IF lines = <<>> THEN <<>>
    ELSE IF Len(lines) = 1 THEN lines[1]
    ELSE lines[1] \o <<NL>> \o JoinNL(Tail(lines))

\* os.path.splitext(name)[1].lstrip('.') on a path's last component: the text
\* after the last dot, unless only dots precede that dot
ExtOf(name) ==
    LET dots == {i \in 1..Len(name) : name[i] = "."}
    IN IF dots = {} THEN <<>>
       ELSE LET d == Max(dots)
            IN IF \A i \in 1..(d - 1) : name[i] = "." THEN <<>>
               ELSE SubSeq(name, d + 1, Len(name))

\* os.path.basename(path): a path is a sequence of names
Basename(path) == path[Len(path)]

----------------------------------------------------------------------------
(* The fixed tables *)

CStyle == [start |-> <<"/","*">>, end |-> <<SP,"*","/">>]
HashStyle == [start |-> <<"#">>, end |-> <<>>]
HtmlStyle == [start |-> <<"<","!","-","-">>, end |-> <<SP,"-","-",">">>]

CStyleExts ==
    { <<"c">>, <<"c","p","p">>, <<"h">>, <<"h","p","p">>, <<"j","a","v","a">>,
      <<"j","s">>, <<"t","s">>, <<"c","s">>, <<"g","o">>, <<"r","s">>,
      <<"c","s","s">>, <<"s","c","s","s">>, <<"p","h","p">> }
HashStyleExts == { <<"p","y">>, <<"s","h">>, <<"r","b">>, <<"y","m","l">> }
HtmlExt == <<"h","t","m","l">>

COMMENT_MAP ==
    [e \in CStyleExts \cup HashStyleExts \cup {HtmlExt} |->
        IF e \in CStyleExts THEN CStyle
        ELSE IF e \in HashStyleExts THEN HashStyle
        ELSE HtmlStyle]

DockerfileName == <<"D","o","c","k","e","r","f","i","l","e">>
DockerfileExt == <<"d","o","c","k","e","r","f","i","l","e">>

SUPPORTED_EXTENSIONS ==
    { <<"p","y">>, <<"j","a","v","a">>, <<"j","s">>, <<"t","s">>, <<"c">>,
      <<"c","p","p">>, <<"h">>, <<"h","p","p">>, <<"c","s">>, <<"g","o">>,
      <<"r","s">>, <<"h","t","m","l">>, <<"c","s","s">>, <<"s","c","s","s">>,
      <<"s","h">>, <<"r","b">>, <<"p","h","p">>, <<"y","m","l">> }

CopyrightLiteral == <<"C","o","p","y","r","i","g","h","t",SP,"(","c",")">>
ShebangMarker == <<"#","!">>
PhpTag == <<"<","?","p","h","p">>
DoctypeMarker == <<"<","!","d","o","c","t","y","p","e">>

\* file and directory names used as inputs
APy == <<"a",".","p","y">>
AC == <<"a",".","c">>
AHtml == <<"a",".","h","t","m","l">>
ATxt == <<"a",".","t","x","t">>
BUpperPy == <<"b",".","P","Y">>
Readme == <<"R","E","A","D","M","E">>
DotPy == <<".","p","y">>
SrcDir == <<"s","r","c">>
VenvDir == <<"v","e","n","v">>
BuildDir == <<"b","u","i","l","d">>

\* the number of leading lines the duplicate guard reads
DupScanLines == 20

----------------------------------------------------------------------------
(* prepend_copyright *)

\* the extension the inserter works with
InsertExtension(file_path) ==
    IF Basename(file_path) = DockerfileName THEN DockerfileExt
    ELSE ExtOf(Basename(file_path))

\* copyright_text.strip().split('\n')
CopyrightLines(text) == Split(Strip(text), NL)

\* FormatNotice with the per-line trailing-whitespace trim left out
FormatNotice_Untrimmed(style, text) ==
    LET lines == CopyrightLines(text)
        notice ==
            IF style.end # <<>>
            THEN <<style.start>>
                 \o [i \in 1..Len(lines) |-> <<SP,"*",SP>> \o lines[i]]
                 \o << <<SP>> \o style.end >>
            ELSE [i \in 1..Len(lines) |-> style.start \o <<SP>> \o lines[i]]
    IN JoinNL(notice) \o <<NL>>

\* the comment block, one string ending in a newline
FormatNotice(style, text) ==
    LET lines == CopyrightLines(text)
        notice ==
            IF style.end # <<>>
            THEN <<style.start>>
                 \o [i \in 1..Len(lines) |-> RStrip(<<SP,"*",SP>> \o lines[i])]
                 \o << <<SP>> \o style.end >>
            ELSE [i \in 1..Len(lines) |-> RStrip(style.start \o <<SP>> \o lines[i])]
    IN JoinNL(notice) \o <<NL>>

\* HasCopyright reading the whole file instead of its leading lines
HasCopyright_WholeFile(original_content) ==
    \E i \in 1..Len(original_content) :
        Contains(original_content[i], CopyrightLiteral)

\* HasCopyright reading half as many leading lines
HasCopyright_ShortScan(original_content) ==
    \E i \in 1..Len(original_content) :
        /\ i <= DupScanLines \div 2
        /\ Contains(original_content[i], CopyrightLiteral)

\* the duplicate guard over the lines read from the file
HasCopyright(original_content) ==
    \E i \in 1..Len(original_content) :
        /\ i <= DupScanLines
        /\ Contains(original_content[i], CopyrightLiteral)

\* whether line1 is kept as the first line of the output
IsSpecialFirstLine(line1, extension) ==
    \/ StartsWith(line1, ShebangMarker)
    \/ StartsWith(Strip(line1), PhpTag)
    \/ (extension = HtmlExt /\ StartsWith(Lower(line1), DoctypeMarker))

\* first_line: the preserved line, or the empty string
FirstLine(original_content, extension) ==
    IF original_content # <<>> /\ IsSpecialFirstLine(original_content[1], extension)
    THEN original_content[1] ELSE <<>>

\* content_to_prepend_to: the lines the notice goes in front of
ContentToPrependTo(original_content, extension) ==
    IF original_content # <<>> /\ IsSpecialFirstLine(original_content[1], extension)
    THEN Tail(original_content) ELSE original_content

\* Rewrite with the separator written whether or not content follows
Rewrite_AlwaysSeparator(first_line, formatted_notice, content_to_prepend_to) ==
    (IF first_line # <<>> THEN first_line ELSE <<>>)
    \o formatted_notice
    \o <<NL>> \o Concat(content_to_prepend_to)

\* what is written after seek(0) and truncate()
Rewrite(first_line, formatted_notice, content_to_prepend_to) ==
    (IF first_line # <<>> THEN first_line ELSE <<>>)
    \o formatted_notice
    \o (IF content_to_prepend_to # <<>>
        THEN <<NL>> \o Concat(content_to_prepend_to) ELSE <<>>)

\* one call: the outcome printed and the file's content afterwards
PrependCopyright(file_path, content, readable, text, comment_map) ==
    LET extension == InsertExtension(file_path)
    IN IF extension \notin DOMAIN comment_map
       THEN [outcome |-> "nostyle", content |-> content]
       ELSE IF ~readable
       THEN [outcome |-> "error", content |-> content]
       ELSE LET formatted_notice == FormatNotice(comment_map[extension], text)
                original_content == ReadLines(content)
            IN IF HasCopyright(original_content)
               THEN [outcome |-> "duplicate", content |-> content]
               ELSE [outcome |-> "added",
                     content |-> Rewrite(FirstLine(original_content, extension),
                                         formatted_notice,
                                         ContentToPrependTo(original_content, extension))]

\* the inserter applied to file f of the file system
CallInserter(f) ==
    LET r == PrependCopyright(f, fs[f], f \notin unreadable, copyright_text, COMMENT_MAP)
    IN /\ fs' = [fs EXCEPT ![f] = r.content]
       /\ calls' = Append(calls, [path |-> f, outcome |-> r.outcome,
                                  before |-> fs[f], after |-> r.content])

----------------------------------------------------------------------------
(* find_files_by_extensions *)

Range(seq) == {seq[i] : i \in 1..Len(seq)}

\* {ext.strip() for ext in extensions_str.split(",")}
Extensions(extensions_str) == {Strip(e) : e \in Range(Split(extensions_str, ","))}

\* the order in which a directory listing yields names
ListingOrder ==
    << APy, BUpperPy, DockerfileName, Readme, DotPy, AC, SrcDir, VenvDir >>

\* the names of kind `present` that a directory holds, in listing order
Listing(dirpath, present) ==
    SelectSeq(ListingOrder, LAMBDA n : (dirpath \o <<n>>) \in present)

\* PruneDirs with no directory taken out
PruneDirs_Unfiltered(dirnames, excluded) == dirnames

\* dirnames[:] = [d for d in dirnames if d not in excluded_dirs]
PruneDirs(dirnames, excluded) ==
    SelectSeq(dirnames, LAMBDA d : d \notin excluded)

\* FileAppends without the `continue` after the Dockerfile match
FileAppends_NoContinue(dirpath, filename, extensions) ==
    (IF DockerfileExt \in extensions /\ filename = DockerfileName
     THEN << dirpath \o <<filename>> >> ELSE <<>>)
    \o (IF ExtOf(filename) \in extensions
        THEN << dirpath \o <<filename>> >> ELSE <<>>)

\* what the loop body appends to matching_files for one file name
FileAppends(dirpath, filename, extensions) ==
    IF DockerfileExt \in extensions /\ filename = DockerfileName
    THEN << dirpath \o <<filename>> >>
    ELSE IF ExtOf(filename) \in extensions
    THEN << dirpath \o <<filename>> >>
    ELSE <<>>

RECURSIVE AppendsOfFiles(_, _, _)
AppendsOfFiles(dirpath, filenames, extensions) ==
    IF filenames = <<>> THEN <<>>
    ELSE FileAppends(dirpath, Head(filenames), extensions)
         \o AppendsOfFiles(dirpath, Tail(filenames), extensions)

\* os.walk(topdown=True) from dirpath with the loop body applied: the files of
\* the directory first, then each directory left in dirnames, in order
RECURSIVE Walk(_, _, _, _, _)
RECURSIVE WalkEach(_, _, _, _, _, _)
Walk(dirpath, D, F, extensions, excluded) ==
    AppendsOfFiles(dirpath, Listing(dirpath, F), extensions)
    \o WalkEach(dirpath, PruneDirs(Listing(dirpath, D), excluded), D, F,
                extensions, excluded)
WalkEach(dirpath, dirnames, D, F, extensions, excluded) ==
    IF dirnames = <<>> THEN <<>>
    ELSE Walk(dirpath \o <<Head(dirnames)>>, D, F, extensions, excluded)
         \o WalkEach(dirpath, Tail(dirnames), D, F, extensions, excluded)

\* the scanner: D the directories and F the files under the root
FindFilesByExtensions(valid, D, F, extensions_str, excluded) ==
    IF ~valid THEN <<>>
    ELSE Walk(<<>>, D, F, Extensions(extensions_str), excluded)

----------------------------------------------------------------------------
(* Inputs of the inserter: file names, file texts and notice texts *)


ShebangLine == <<"#","!","/","b","i","n","/","s","h">>
PhpLine == <<"<","?","p","h","p">>
IndentedPhpLine == <<SP,SP,"<","?","p","h","p">>
DoctypeLine == <<"<","!","D","O","C","T","Y","P","E",SP,"h","t","m","l",">">>
CodeLine == <<"x","=","1">>
LiteralLine == <<"#",SP,"C","o","p","y","r","i","g","h","t",SP,"(","c",")",SP,"A">>
LowerLiteralLine == <<"#",SP,"c","o","p","y","r","i","g","h","t",SP,"(","c",")",SP,"a">>
PadLine == <<"x">>

\* the largest number of padding lines put in front of a file's body
MaxPad == 20
\* the largest number of padding lines put in front of a notice's literal line
MaxNoticePad == 19
\* the largest number of inserter calls on one file
MaxRuns == 2

Pad(k) == [i \in 1..k |-> PadLine]

\* a text made of the given lines, with or without a newline after the last
Assemble(lines, final_newline) ==
    JoinNL(lines) \o (IF final_newline /\ lines # <<>> THEN <<NL>> ELSE <<>>)

InsertFileNames == {APy, AC, AHtml, ATxt, DockerfileName}

FileHeads == {<<>>, <<ShebangLine>>, <<PhpLine>>, <<IndentedPhpLine>>, <<DoctypeLine>>}
FileBodies == {<<>>, <<CodeLine>>, <<LiteralLine>>, <<LowerLiteralLine>>}
PadCounts == {0} \cup ((DupScanLines - 2)..MaxPad)

FileTexts ==
    {Assemble(h \o Pad(k) \o b, nl) :
        h \in FileHeads, k \in PadCounts, b \in FileBodies, nl \in BOOLEAN}

\* the file texts without padding, each ending in a newline
ShortFileTexts == {Assemble(h \o b, TRUE) : h \in FileHeads, b \in FileBodies}

PlainNotice == <<"C","o","p","y","r","i","g","h","t",SP,"(","c",")",SP,"A",NL,"A","l","l",SP,"r","i","g","h","t","s",SP,NL>>
RaggedNotice == <<NL,SP,SP,"C","o","p","y","r","i","g","h","t",SP,"(","c",")",SP,"A",NL,NL,"B",NL>>
NoLiteralNotice == <<"A","l","l",SP,"r","i","g","h","t","s">>
EmptyNotice == <<>>
PaddedNotice(k) == Assemble(Pad(k) \o <<LiteralLine>>, TRUE)

NoticeTexts ==
    {PlainNotice, RaggedNotice, NoLiteralNotice, EmptyNotice}
    \cup {PaddedNotice(k) : k \in (DupScanLines - 3)..MaxNoticePad}

----------------------------------------------------------------------------
(* The inserter called repeatedly on one file *)

InitInsert ==
    /\ pc = "insert"
    /\ root_valid = TRUE
    /\ dirs = {<<>>}
    /\ \E name \in InsertFileNames, content \in FileTexts :
          /\ fs = (<<name>> :> content)
          /\ unreadable \in {{}} \cup (IF content \in ShortFileTexts
                                      THEN {{<<name>>}} ELSE {})
          /\ found_files = << <<name>> >>
    /\ file_extensions_str = <<>>
    /\ excluded_dirs = {}
    /\ \E text \in NoticeTexts :
          /\ copyright_file = [status |-> "ok", text |-> text]
          /\ copyright_text = text
    /\ idx = 0
    /\ exit_code = -1
    /\ calls = <<>>
    /\ fs0 = fs

InsertCall ==
    /\ pc = "insert"
    /\ Len(calls) < MaxRuns
    /\ \E f \in DOMAIN fs : CallInserter(f)
    /\ UNCHANGED <<pc, root_valid, dirs, unreadable, file_extensions_str, excluded_dirs,
                   copyright_file, copyright_text, found_files, idx, exit_code, fs0>>

NextInsert == InsertCall

SpecInsert == InitInsert /\ [][NextInsert]_vars

----------------------------------------------------------------------------
(* The main script *)

\* {d.strip() for d in excluded_dirs_str.split(',') if d.strip()}
ParseExcluded(excluded_dirs_str) ==
    {Strip(d) : d \in Range(Split(excluded_dirs_str, ","))} \ {<<>>}

\* UnsupportedExtensions with the check left out
UnsupportedExtensions_Ignored(extensions_str) == {}

\* user_extensions - SUPPORTED_EXTENSIONS
UnsupportedExtensions(extensions_str) ==
    Extensions(extensions_str) \ SUPPORTED_EXTENSIONS

\* AfterCall with the inserter's exception reaching the loop
AfterCall_Uncaught(outcome) == IF outcome = "error" THEN "aborted" ELSE "loop"

\* where the script stands when prepend_copyright returns: the function
\* catches every exception itself, so the loop goes on whatever the outcome
AfterCall(outcome) == "loop"

ValidateExtensions ==
    /\ pc = "validate"
    /\ IF UnsupportedExtensions(file_extensions_str) # {}
       THEN pc' = "aborted" /\ exit_code' = 1
       ELSE pc' = "load" /\ exit_code' = exit_code
    /\ UNCHANGED <<root_valid, dirs, fs, unreadable, file_extensions_str, excluded_dirs,
                   copyright_file, copyright_text, found_files, idx, calls, fs0>>

\* NoticeRead with a failed read taken for a read
NoticeRead_Always(file) == TRUE

\* whether open() and read() of the notice file go through
NoticeRead(file) == file.status = "ok"

LoadNotice ==
    /\ pc = "load"
    /\ IF NoticeRead(copyright_file)
       THEN /\ copyright_text' = copyright_file.text
            /\ pc' = "scan"
            /\ exit_code' = exit_code
       ELSE /\ copyright_text' = copyright_text
            /\ pc' = "aborted"
            /\ exit_code' = 1
    /\ UNCHANGED <<root_valid, dirs, fs, unreadable, file_extensions_str, excluded_dirs,
                   copyright_file, found_files, idx, calls, fs0>>

Scan ==
    /\ pc = "scan"
    /\ found_files' = FindFilesByExtensions(root_valid, dirs, DOMAIN fs,
                                            file_extensions_str, excluded_dirs)
    /\ IF found_files' # <<>>
       THEN pc' = "loop" /\ exit_code' = exit_code
       ELSE pc' = "done" /\ exit_code' = 0
    /\ UNCHANGED <<root_valid, dirs, fs, unreadable, file_extensions_str, excluded_dirs,
                   copyright_file, copyright_text, idx, calls, fs0>>

ProcessFile ==
    /\ pc = "loop"
    /\ idx < Len(found_files)
    /\ CallInserter(found_files[idx + 1])
    /\ idx' = idx + 1
    /\ pc' = AfterCall(calls'[Len(calls')].outcome)
    /\ exit_code' = IF pc' = "aborted" THEN 1 ELSE exit_code
    /\ UNCHANGED <<root_valid, dirs, unreadable, file_extensions_str, excluded_dirs,
                   copyright_file, copyright_text, found_files, fs0>>

Finish ==
    /\ pc = "loop"
    /\ idx = Len(found_files)
    /\ pc' = "done"
    /\ exit_code' = 0
    /\ UNCHANGED <<root_valid, dirs, fs, unreadable, file_extensions_str, excluded_dirs,
                   copyright_file, copyright_text, found_files, idx, calls, fs0>>

----------------------------------------------------------------------------
(* Inputs of the scanner and of the script *)

\* the greatest depth of a directory under the root
MaxDepth == 2

TreeDirNames == {SrcDir, VenvDir}
TreeFileNames == {APy, BUpperPy, DockerfileName, Readme, DotPy, AC}

AllDirPaths == UNION {[1..k -> TreeDirNames] : k \in 1..MaxDepth}

\* the sets of directories a tree can hold: with a directory, its parent
DirTrees ==
    {T \cup {<<>>} : T \in {U \in SUBSET AllDirPaths :
        \A d \in U : Len(d) > 1 => SubSeq(d, 1, Len(d) - 1) \in U}}

FilesIn(D) == {d \o <<n>> : d \in D, n \in TreeFileNames}

ExtensionStrs ==
    { <<"p","y">>, <<"p","y",",",SP,"c">>, <<"P","Y">>, <<"c">>,
      <<"d","o","c","k","e","r","f","i","l","e">>, <<"d","o","c","k","e","r","f","i","l","e",",">>, <<>>, <<"p","y",",","t","x","t">> }

ExcludedSets == {{}, {VenvDir}, {SrcDir, VenvDir}, {BuildDir}}

ExcludedStrs == { <<>>, <<"v","e","n","v">>, <<SP,"v","e","n","v",SP,",",",","b","u","i","l","d">> }

----------------------------------------------------------------------------
(* The scanner alone *)

InitScan ==
    /\ pc = "scan"
    /\ root_valid \in BOOLEAN
    /\ dirs \in (IF root_valid THEN DirTrees ELSE {{}})
    /\ fs = [f \in FilesIn(dirs) |-> <<>>]
    /\ unreadable = {}
    /\ file_extensions_str \in ExtensionStrs
    /\ excluded_dirs \in ExcludedSets
    /\ copyright_file = [status |-> "ok", text |-> PlainNotice]
    /\ copyright_text = PlainNotice
    /\ found_files = <<>>
    /\ idx = 0
    /\ exit_code = -1
    /\ calls = <<>>
    /\ fs0 = fs

NextScan == Scan

SpecScan == InitScan /\ [][NextScan]_vars

----------------------------------------------------------------------------
(* A run of the script *)

RunTrees == { {<<>>}, {<<>>, <<SrcDir>>, <<VenvDir>>, <<SrcDir, VenvDir>>} }

RunTexts ==
    { <<>>, Assemble(<<CodeLine>>, TRUE), Assemble(<<ShebangLine, CodeLine>>, TRUE),
      Assemble(<<LiteralLine, CodeLine>>, TRUE) }

NoticeFiles ==
    { [status |-> "ok", text |-> PlainNotice],
      [status |-> "missing", text |-> <<>>],
      [status |-> "unreadable", text |-> PlainNotice] }

Init ==
    /\ pc = "validate"
    /\ root_valid \in BOOLEAN
    /\ dirs \in (IF root_valid THEN RunTrees ELSE {{}})
    /\ \E top \in RunTexts, sub \in RunTexts :
          fs = [f \in FilesIn(dirs) |-> IF Len(f) = 1 THEN top ELSE sub]
    /\ unreadable \in {{}, {<<APy>>} \cap DOMAIN fs}
    /\ file_extensions_str \in ExtensionStrs
    /\ \E str \in ExcludedStrs : excluded_dirs = ParseExcluded(str)
    /\ copyright_file \in NoticeFiles
    /\ copyright_text = <<>>
    /\ found_files = <<>>
    /\ idx = 0
    /\ exit_code = -1
    /\ calls = <<>>
    /\ fs0 = fs

Next ==
    \/ ValidateExtensions
    \/ LoadNotice
    \/ Scan
    \/ ProcessFile
    \/ Finish

Spec == Init /\ [][Next]_vars

----------------------------------------------------------------------------
(* Properties of the inserter *)

\* the lines of a text without their newlines
LinesOf(text) == Split(text, NL)

\* the lines of a text as a reader counts them: a final newline ends the last
\* line, it does not start another; an empty text is one empty line
NaturalLines(text) ==
    IF text = <<>> THEN << <<>> >>
    ELSE IF text[Len(text)] = NL THEN Split(SubSeq(text, 1, Len(text) - 1), NL)
    ELSE Split(text, NL)

\* the first line of a text with its newline, if it has one
LeadingLine(text) ==
    LET at == {i \in 1..Len(text) : text[i] = NL}
    IN IF at = {} THEN text ELSE SubSeq(text, 1, Min(at))

\* a first line the inserter is to preserve: a shebang, a PHP open tag
\* (leading blanks allowed), or a doctype in an html file
SpecialLine(line, ext) ==
    \/ StartsWith(line, ShebangMarker)
    \/ StartsWith(LStrip(line), PhpTag)
    \/ (ext = HtmlExt /\ StartsWith(Lower(line), DoctypeMarker))

LiteralWithin(lines, n) ==
    \E k \in 1..Len(lines) : k <= n /\ Contains(lines[k], CopyrightLiteral)

KnownStyle(path) == InsertExtension(path) \in DOMAIN COMMENT_MAP
StyleOf(path) == COMMENT_MAP[InsertExtension(path)]
Added(i) == calls[i].outcome = "added"

\* the preserved part of call i's file: its special first line, or nothing
Preserved(i) ==
    IF calls[i].before # <<>>
       /\ SpecialLine(LeadingLine(calls[i].before), InsertExtension(calls[i].path))
    THEN LeadingLine(calls[i].before) ELSE <<>>

\* the original content after the preserved part
Remaining(i) ==
    SubSeq(calls[i].before, Len(Preserved(i)) + 1, Len(calls[i].before))

----------------------------------------------------------------------------
\* C9: a call that meets no I/O error skips the file, leaving its content as it
\* was, exactly when the file's extension has no style or one of its first 20
\* lines holds the literal "Copyright (c)"; otherwise the notice is inserted.
C9_SkipDecision ==
    \A i \in 1..Len(calls) :
        calls[i].outcome # "error" =>
            LET skip == \/ ~KnownStyle(calls[i].path)
                        \/ LiteralWithin(LinesOf(calls[i].before), 20)
            IN /\ skip <=> calls[i].outcome \in {"nostyle", "duplicate"}
               /\ skip => calls[i].after = calls[i].before
               /\ ~skip => /\ Added(i)
                           /\ calls[i].after # calls[i].before
                           /\ Contains(calls[i].after,
                                       FormatNotice(StyleOf(calls[i].path), copyright_text))

\* a file holding the literal on line 21 only gets the notice
C9_Witness ==
    \E i \in 1..Len(calls) :
        /\ Added(i)
        /\ Len(LinesOf(calls[i].before)) >= 21
        /\ Contains(LinesOf(calls[i].before)[21], CopyrightLiteral)

----------------------------------------------------------------------------
\* C1 as stated: for every file, every notice text and every extension with a
\* known style, a second call leaves the file as the first call left it.
C1_Idempotent ==
    \A i \in 2..Len(calls) :
        KnownStyle(calls[i].path) => calls[i].after = calls[i - 1].after

\* C1 as amended: when the notice text, stripped, holds the literal
\* "Copyright (c)" on one of its first 18 lines, a second call leaves the file
\* as the first call left it.
C1_IdempotentWithLiteral ==
    \A i \in 2..Len(calls) :
        LiteralWithin(LinesOf(Strip(copyright_text)), 18)
            => calls[i].after = calls[i - 1].after

\* the first call inserts a notice whose literal is on its line 18, behind a
\* preserved line and a block opener, and the second call skips
C1_Witness ==
    /\ Len(calls) >= 2
    /\ calls[1].outcome = "added"
    /\ calls[2].outcome = "duplicate"
    /\ calls[2].after = calls[1].after
    /\ Preserved(1) # <<>>
    /\ StyleOf(calls[1].path).end # <<>>
    /\ ~LiteralWithin(LinesOf(Strip(copyright_text)), 17)
    /\ LiteralWithin(LinesOf(Strip(copyright_text)), 18)

----------------------------------------------------------------------------
\* C2: after an insertion into a file whose first line is special, line 1 of
\* the file is the original line 1 and the notice begins on line 2, also when
\* the file is that line alone; into any other file, the notice begins on
\* line 1.
C2_SpecialFirstLinePreserved ==
    \A i \in 1..Len(calls) :
        Added(i) =>
            LET old == LinesOf(calls[i].before)
                new == LinesOf(calls[i].after)
                start == StyleOf(calls[i].path).start
            IN IF calls[i].before # <<>>
                  /\ SpecialLine(old[1], InsertExtension(calls[i].path))
               THEN /\ new[1] = old[1]
                    /\ Len(new) >= 2
                    /\ StartsWith(new[2], start)
               ELSE StartsWith(new[1], start)

----------------------------------------------------------------------------
\* C3: after an insertion the file is the preserved special first line (if
\* any), the formatted notice, then, if and only if original content remains,
\* one blank line and that content unchanged; nothing follows the notice
\* otherwise.
C3_RewriteComposition ==
    \A i \in 1..Len(calls) :
        Added(i) =>
            calls[i].after =
                Preserved(i)
                \o FormatNotice(StyleOf(calls[i].path), copyright_text)
                \o (IF Remaining(i) # <<>> THEN <<NL>> \o Remaining(i) ELSE <<>>)

\* an insertion behind a preserved line and in front of remaining content
C3_Witness ==
    \E i \in 1..Len(calls) :
        Added(i) /\ Preserved(i) # <<>> /\ Remaining(i) # <<>>

----------------------------------------------------------------------------
\* the shape of a comment block over the given notice lines: for a style with
\* an end marker, the start marker, the lines behind " * " and a closing line
\* holding the end marker; for a style without, the lines behind the start
\* marker and a space; trailing whitespace trimmed
NoticeShape(block, style, lines, closing) ==
    IF style.end # <<>>
    THEN /\ Len(block) = Len(lines) + 2
         /\ block[1] = style.start
         /\ \A k \in 1..Len(lines) : block[k + 1] = RStrip(<<SP,"*",SP>> \o lines[k])
         /\ block[Len(block)] \in closing
    ELSE /\ Len(block) = Len(lines)
         /\ \A k \in 1..Len(lines) : block[k] = RStrip(style.start \o <<SP>> \o lines[k])

\* the lines of the comment block call i wrote: what lies between the
\* preserved line and the separator in front of the remaining content
WrittenBlock(i) ==
    LET tail == IF Remaining(i) # <<>> THEN 1 + Len(Remaining(i)) ELSE 0
    IN NaturalLines(SubSeq(calls[i].after, Len(Preserved(i)) + 1,
                           Len(calls[i].after) - tail))

----------------------------------------------------------------------------
(* Properties of the scanner *)

\* the directories a file lies in, below the root
Ancestors(path) == {path[j] : j \in 1..(Len(path) - 1)}

\* the scanner's match criterion for a file name
Requested(name) ==
    \/ ExtOf(name) \in Extensions(file_extensions_str)
    \/ (DockerfileExt \in Extensions(file_extensions_str) /\ name = DockerfileName)

\* C5: no file lying in a directory whose name is excluded, at any depth
\* below the root, is in the scanner's result.
C5_ExcludedNeverReturned ==
    pc # "scan" =>
        \A k \in 1..Len(found_files) :
            Ancestors(found_files[k]) \cap excluded_dirs = {}

\* files are returned while a matching file two levels down, in an excluded
\* directory under a directory that is not excluded, is left out
C5_Witness ==
    /\ pc # "scan"
    /\ found_files # <<>>
    /\ SrcDir \notin excluded_dirs
    /\ VenvDir \in excluded_dirs
    /\ <<SrcDir, VenvDir, APy>> \in DOMAIN fs
    /\ Requested(APy)
    /\ <<SrcDir, APy>> \in Range(found_files)
    /\ <<SrcDir, VenvDir, APy>> \notin Range(found_files)

\* C6: for a valid root the result holds, once each, exactly the files outside
\* excluded subtrees whose extension is requested, or that are named
\* Dockerfile when "dockerfile" is requested; for an invalid root it is empty.
C6_MatchCriterion ==
    pc # "scan" =>
        IF root_valid
        THEN /\ Range(found_files) =
                    {f \in DOMAIN fs : /\ Ancestors(f) \cap excluded_dirs = {}
                                       /\ Requested(Basename(f))}
             /\ Cardinality(Range(found_files)) = Len(found_files)
        ELSE found_files = <<>>

\* a Dockerfile is returned for a request that holds "dockerfile" and the
\* empty extension, which the Dockerfile has, next to a README
C6_Witness ==
    /\ pc # "scan"
    /\ root_valid
    /\ {DockerfileExt, <<>>} \subseteq Extensions(file_extensions_str)
    /\ {<<DockerfileName>>, <<Readme>>} \subseteq Range(found_files)
    /\ <<APy>> \notin Range(found_files)

----------------------------------------------------------------------------
(* Properties of a run *)

\* every requested extension is one of the supported ones
AllSupported ==
    \A e \in Extensions(file_extensions_str) : e \in SUPPORTED_EXTENSIONS

ChecksPassed == pc \in {"scan", "loop", "done"}

\* C7: an unsupported extension or a missing or unreadable notice file aborts
\* the run with a nonzero exit before any file is scanned or changed, and no
\* file changes before both checks have passed.
C7_FailFast ==
    /\ (~AllSupported \/ copyright_file.status # "ok")
          => pc \in {"validate", "load", "aborted"}
    /\ pc = "aborted" => exit_code # 0 /\ exit_code # -1
    /\ ~ChecksPassed => fs = fs0 /\ calls = <<>> /\ found_files = <<>>

\* a run aborted on the notice file after its extensions were accepted, over
\* a tree with files that match them
C7_Witness ==
    /\ pc = "aborted"
    /\ AllSupported
    /\ copyright_file.status = "unreadable"
    /\ \E f \in DOMAIN fs : Requested(Basename(f))

\* C8: once the checks have passed the inserter is called once for every file
\* the scanner returned, in the scanner's order, whatever the outcomes before;
\* the loop never stops early and the run ends without a failure exit.
C8_PerFileIsolation ==
    /\ ChecksPassed =>
          /\ Len(calls) = idx
          /\ idx <= Len(found_files)
          /\ \A i \in 1..Len(calls) : calls[i].path = found_files[i]
    /\ pc = "done" => idx = Len(found_files) /\ exit_code = 0
    /\ pc = "aborted" => calls = <<>>

\* a finished run in which a file that raised and a file that was skipped
\* are followed by a file that got the notice
C8_Witness ==
    /\ pc = "done"
    /\ \E i, j, k \in 1..Len(calls) :
          /\ i < k /\ j < k
          /\ calls[i].outcome = "error"
          /\ calls[j].outcome = "duplicate"
          /\ calls[k].outcome = "added"

\* C10: every supported extension has a comment style and "dockerfile" is not
\* supported; so in a run that passed the extension check every file found has
\* a style, none is named Dockerfile, and no call ends in the no-style skip.
C10_SupportedHaveStyle ==
    /\ SUPPORTED_EXTENSIONS \subseteq DOMAIN COMMENT_MAP
    /\ DockerfileExt \notin SUPPORTED_EXTENSIONS
    /\ \A k \in 1..Len(found_files) :
          /\ KnownStyle(found_files[k])
          /\ Basename(found_files[k]) # DockerfileName
    /\ \A i \in 1..Len(calls) : calls[i].outcome # "nostyle"

\* a finished run over a tree that holds Dockerfiles and files without a
\* style, in which every file found was handled
C10_Witness ==
    /\ pc = "done"
    /\ calls # <<>>
    /\ <<DockerfileName>> \in DOMAIN fs
    /\ <<Readme>> \in DOMAIN fs
    /\ \A i \in 1..Len(calls) : calls[i].outcome \in {"added", "duplicate", "error"}

====
